---- MODULE Spec2Model ----
(***************************************************************************)
(* Model of src/models/framework.py: the training loop driver train_loop,  *)
(* the SIGALRM watchdog, and the checkpoint functions save_model,          *)
(* load_model_from_checkpoint, last_checkpoint_path and load_model.        *)
(*                                                                         *)
(* Two state machines share the variables:                                 *)
(*   Spec      one training process after another on one model directory:  *)
(*             train_loop statement by statement, with the watchdog, and   *)
(*             a new process (load_model + train_loop) after an exit;      *)
(*   SpecCkpt  the checkpoint functions called directly on entities and    *)
(*             directories drawn from bounded sets.                        *)
(* FairSpec is Spec with the fairness of a running single-threaded         *)
(* process.                                                                *)
(***************************************************************************)
EXTENDS Integers, Sequences, FiniteSets, TLC

VARIABLES
    pc,                 \* position of the process in train_loop / its exit state
    exit_status,        \* Running, or the status the process ended with
    exit_cause,         \* "none", "returned", "nan", "watchdog", or the
                        \* exception that was not caught
    cuda,               \* torch.cuda.is_available()
    model,              \* the Vocoder's state_dict: key -> tensor
    training,           \* torch Module.training (train() / eval() mode)
    optimizers,         \* model.get_optimizers(): sequence of [opt, sched]
    ckpt_dir,           \* files of <model_dir>/checkpoints: name -> record
    dir_exists,         \* whether the checkpoint directory exists
    train_len,          \* number of batches of train_set
    valid_len,          \* number of batches of valid_set
    cursor,             \* batches drawn from train_set in the current pass
    laps,               \* "Completed epoch." notices printed by this process
    total_start_time,   \* "None" or "set"  (train_loop local)
    num_iterations,     \* train_loop local
    print_loss,         \* "none", "finite" or "nan": the last step's loss
    done,               \* result of the last model.is_done() call
    alarm,              \* seconds until SIGALRM is delivered, 0 = no alarm
    deadline,           \* argument of the pending signal.alarm(n), 0 = none
    elapsed,            \* seconds passed since that call
    writer,             \* SummaryWriter(log_dir) of the process: the records
                        \* written through it since the first modelled state
    start_step,         \* history: global_step when train_loop was entered
    step_calls,         \* history: train_step calls of this train_loop run
    armings,            \* history: signal.alarm(n > 0) calls of this process
    saves,              \* history: save_model calls since the first modelled
                        \* state, each [step, final, proc, existed, again]
    written,            \* history: names this process has written
    restarts,           \* history: processes started after the first
    budget,             \* iterations that may still be started: is_done()
                        \* is certainly true once it is used up
    load_result,        \* outcome of the last load_model_from_checkpoint
    pre_load,           \* history: the entity just before that load
    loaded,             \* history: the file that load read
    saved,              \* history: the file the last direct save_model wrote
    latest,             \* result of the last last_checkpoint_path call
    valid_losses,       \* valid_set: what model.validation_losses returns
                        \* for each of its batches, in order
    call                \* history: the last direct call of
                        \* compute_validation_metrics or
                        \* generate_tensorboard_samples

vars == <<pc, exit_status, exit_cause, cuda, model, training, optimizers,
          ckpt_dir, dir_exists, train_len, valid_len, cursor, laps,
          total_start_time, num_iterations, print_loss, done, alarm,
          deadline, elapsed, writer, start_step, step_calls, armings, saves,
          written, restarts, budget, load_result, pre_load, loaded, saved,
          latest, valid_losses, call>>

\* the variables of the entity and of the checkpoint directory
entity_vars == <<model, optimizers>>
\* the inputs of a run: they never change
input_vars == <<cuda, train_len, valid_len>>
\* what only load_model and the direct calls of the codec touch
codec_vars == <<load_result, pre_load, loaded, saved, latest>>
\* the validation source and what only the direct calls of the two
\* functions writing to the SummaryWriter touch
sink_vars == <<valid_losses, call>>

----------------------------------------------------------------------------
(* Program constants.                                                      *)

EVAL_FREQUENCY == 5000
GENERATE_FREQUENCY == 100000
GENERATE_NUM_SAMPLES == 2
LOG_FREQUENCY == 10
MAX_FIRST_ITERATION_DELAY == 600
MAX_TRAINING_ITERATION_DELAY == 60
\* the field width of f"{model.global_step:08d}"
CKPT_NAME_WIDTH == 8

----------------------------------------------------------------------------
(* Bounds of the model.                                                    *)

\* iterations modelled after the loop head the model starts at
MaxIter == 2
\* processes started after the first one
MaxRestarts == 1
\* "Completed epoch." notices counted per process
MaxLaps == 2
\* batches of the training source
MaxTrainLen == 2
\* batches of the validation source
MaxValidLen == 2
\* optimizer / scheduler pairs of an entity
MaxPairs == 2
\* training steps of an entity between the direct calls of the codec
MaxCodecSteps == 1

----------------------------------------------------------------------------
(* Values held in state dicts: tensors, dicts, lists, None, other leaves.  *)

Tensor(v, d) == [kind |-> "tensor", dtype |-> "float32", val |-> v, dev |-> d]
IntTensor(v, d) == [kind |-> "tensor", dtype |-> "int32", val |-> v, dev |-> d]
DictV(f) == [kind |-> "dict", items |-> f]
ListV(s) == [kind |-> "list", items |-> s]
Other(x) == [kind |-> "other", val |-> x]
None == [kind |-> "none"]

\* Values of a float tensor: two finite values and one holding a NaN.
TensorVals == {"t0", "t1", "nan"}

\* exit_status of a process that has not ended
Running == 0 - 1

Min(a, b) == IF a <= b THEN a ELSE b

\* The device a module lives on after model.to("cuda") when cuda is there.
DeviceOf(has_cuda) == IF has_cuda THEN "cuda" ELSE "cpu"

\* move_state_dict_to_device(item, cpu): tensors are moved, dicts and lists
\* are rebuilt from their moved members, anything else is returned as is.
RECURSIVE move_state_dict_to_device(_, _)
move_state_dict_to_device(item, cpu) ==
    IF item.kind = "tensor"
    THEN [item EXCEPT !.dev = IF cpu THEN "cpu" ELSE "cuda"]
    ELSE IF item.kind = "dict"
    THEN DictV([key \in DOMAIN item.items |->
                   move_state_dict_to_device(item.items[key], cpu)])
    ELSE IF item.kind = "list"
    THEN ListV([i \in DOMAIN item.items |->
                   move_state_dict_to_device(item.items[i], cpu)])
    ELSE item

\* The state_dict of a Vocoder: the registered buffer global_step_buffer
\* and the parameters of the subclass (one float tensor here).
ModelState(step, w, d) ==
    DictV([global_step_buffer |-> IntTensor(step, d),
           weight |-> Tensor(w, d)])

\* Vocoder.global_step (getter): the buffer read as an integer.
global_step == model.items.global_step_buffer.val

\* Vocoder.global_step (setter): fill_ on the buffer.
SetGlobalStep(m, value) == [m EXCEPT !.items.global_step_buffer.val = value]

\* The state_dict of an optimizer (a state tensor and a param_groups list)
\* and of a scheduler; m and e count the updates train_step has applied.
OptState(m, d) ==
    DictV([state |-> DictV([exp_avg |-> Tensor(m, d)]),
           param_groups |-> ListV(<<Other(m)>>)])
SchedState(e) == DictV([last_epoch |-> Other(e)])

----------------------------------------------------------------------------
(* Checkpoint file names and their order.                                  *)

RECURSIVE Digits(_)
\* the decimal digits of n >= 0, most significant first
Digits(n) == IF n < 10 THEN <<n>> ELSE Append(Digits(n \div 10), n % 10)

\* f"{n:08d}" as character codes: at least CKPT_NAME_WIDTH digits, padded
\* with '0' on the left; a longer number is not truncated.
Format08d(n) ==
    LET ds == Digits(n)
        pad == IF Len(ds) < CKPT_NAME_WIDTH THEN CKPT_NAME_WIDTH - Len(ds) ELSE 0
    IN  [i \in 1..(pad + Len(ds)) |->
            IF i <= pad THEN 48 ELSE 48 + ds[i - pad]]

\* ".ckpt" as character codes
CkptSuffix == <<46, 99, 107, 112, 116>>

\* the file name save_model writes for a global step
CkptName(step) == Format08d(step) \o CkptSuffix

\* Python's str order (the order sorted() uses): the first differing
\* character decides, a proper prefix sorts first.
StrLess(a, b) ==
    \/ \E i \in 1..Min(Len(a), Len(b)) :
          /\ a[i] < b[i]
          /\ \A j \in 1..(i - 1) : a[j] = b[j]
    \/ /\ Len(a) < Len(b)
       /\ \A j \in 1..Len(a) : a[j] = b[j]

NoPath == <<>>

\* last_checkpoint_path: sorted(glob("*.ckpt"))[-1], or None when nothing
\* matches (an absent directory matches nothing).
last_checkpoint_path(dir, exists) ==
    LET checkpoint_paths == IF exists THEN DOMAIN dir ELSE {}
    IN  IF checkpoint_paths # {}
        THEN CHOOSE p \in checkpoint_paths :
                 \A q \in checkpoint_paths : q = p \/ StrLess(q, p)
        ELSE NoPath

----------------------------------------------------------------------------
(* save_model and load_model_from_checkpoint.                              *)

\* The record save_model builds: the three sub-states, moved to the CPU.
Checkpoint(m, opts) ==
    move_state_dict_to_device(
        DictV([model |-> m,
               optimizers |-> ListV([i \in 1..Len(opts) |-> opts[i].opt]),
               lr_schedulers |-> ListV([i \in 1..Len(opts) |-> opts[i].sched])]),
        TRUE)

\* save_model: the directory after torch.save wrote (or overwrote) the
\* file named by the global step.
save_model(m, opts, dir) ==
    LET name == CkptName(m.items.global_step_buffer.val)
        checkpoint == Checkpoint(m, opts)
    IN  [n \in (DOMAIN dir) \cup {name} |->
            IF n = name THEN checkpoint ELSE dir[n]]

\* isinstance(tensor, torch.Tensor) and torch.any(torch.isnan(tensor)):
\* an integer tensor holds no NaN
HasNaN(t) == t.kind = "tensor" /\ t.dtype = "float32" /\ t.val = "nan"

\* Module.load_state_dict: the values are copied into the module's own
\* tensors, which stay on their device.
load_state_dict(m, sd) ==
    DictV([key \in DOMAIN m.items |->
              [m.items[key] EXCEPT !.val = sd.items[key].val]])

\* the pairs zip() yields: as many as the shortest of the three sequences
ZipLen(opts, checkpoint) ==
    Min(Len(opts), Min(Len(checkpoint.items.optimizers.items),
                       Len(checkpoint.items.lr_schedulers.items)))

\* The pair at which a scheduler is handed None as its state (0 if none):
\* sched.load_state_dict(None) raises.
FirstBadSched(opts, checkpoint) ==
    LET bad == {i \in 1..ZipLen(opts, checkpoint) :
                   /\ opts[i].sched # None
                   /\ checkpoint.items.lr_schedulers.items[i] = None}
    IN  IF bad = {} THEN 0 ELSE CHOOSE i \in bad : \A j \in bad : i <= j

\* load_model_from_checkpoint with the scheduler states left unrestored.
LoadWithoutSchedulers(m, opts, record, has_cuda) ==
    LET checkpoint == IF has_cuda
                      THEN move_state_dict_to_device(record, FALSE)
                      ELSE record
        sd == checkpoint.items.model
        n == ZipLen(opts, checkpoint)
        restored == [i \in 1..Len(opts) |->
            IF i > n THEN opts[i]
            ELSE [opt |-> checkpoint.items.optimizers.items[i],
                  sched |-> opts[i].sched]]
    IN  IF \E key \in DOMAIN sd.items : HasNaN(sd.items[key])
        THEN [result |-> "AssertionError", model |-> m, optimizers |-> opts]
        ELSE [result |-> "ok",
              model |-> load_state_dict(m, sd),
              optimizers |-> restored]

\* load_model_from_checkpoint with the NaN scan run after the model's
\* state was loaded.
LoadThenScan(m, opts, record, has_cuda) ==
    LET checkpoint == IF has_cuda
                      THEN move_state_dict_to_device(record, FALSE)
                      ELSE record
        sd == checkpoint.items.model
        n == ZipLen(opts, checkpoint)
        restored == [i \in 1..Len(opts) |->
            IF i > n THEN opts[i]
            ELSE [opt |-> checkpoint.items.optimizers.items[i],
                  sched |-> IF opts[i].sched = None THEN None
                            ELSE checkpoint.items.lr_schedulers.items[i]]]
    IN  IF \E key \in DOMAIN sd.items : HasNaN(sd.items[key])
        THEN [result |-> "AssertionError",
              model |-> load_state_dict(m, sd),
              optimizers |-> opts]
        ELSE [result |-> "ok",
              model |-> load_state_dict(m, sd),
              optimizers |-> restored]

\* load_model_from_checkpoint on the record read from the file: the
\* outcome ("ok", or the error raised) and the entity it leaves behind.
load_model_from_checkpoint(m, opts, record, has_cuda) ==
    LET checkpoint == IF has_cuda
                      THEN move_state_dict_to_device(record, FALSE)
                      ELSE record
        sd == checkpoint.items.model
        n == ZipLen(opts, checkpoint)
        bad == FirstBadSched(opts, checkpoint)
        \* pairs 1..upto had opt restored; scheds restored below the bad pair
        upto == IF bad = 0 THEN n ELSE bad
        restored == [i \in 1..Len(opts) |->
            IF i > upto THEN opts[i]
            ELSE [opt |-> checkpoint.items.optimizers.items[i],
                  sched |-> IF opts[i].sched = None \/ i = bad
                            THEN opts[i].sched
                            ELSE checkpoint.items.lr_schedulers.items[i]]]
    IN  IF \E key \in DOMAIN sd.items : HasNaN(sd.items[key])
        THEN [result |-> "AssertionError", model |-> m, optimizers |-> opts]
        ELSE [result |-> IF bad = 0 THEN "ok" ELSE "TypeError",
              model |-> load_state_dict(m, sd),
              optimizers |-> restored]

----------------------------------------------------------------------------
(* The entity of a training run and the inputs of the model.               *)

\* get_optimizers() of the trained model: a pair with a scheduler and a
\* pair without one; shape[i] tells whether pair i has a scheduler.
TrainShape == <<TRUE, FALSE>>

\* The pairs of an entity of the given shape whose optimizers and
\* schedulers have applied n updates.
Pairs(shape, n, d) ==
    [i \in 1..Len(shape) |->
        [opt |-> OptState(n, d),
         sched |-> IF shape[i] THEN SchedState(n) ELSE None]]

\* The shape of a sequence of pairs.
ShapeOf(opts) == [i \in 1..Len(opts) |-> opts[i].sched # None]

\* model_class(config); model.initialize(): a new entity, at step 0.
NewModel == ModelState(0, "t0", "cpu")
NewOptimizers(shape) == Pairs(shape, 0, "cpu")

\* Module.to("cuda") when cuda is available: every tensor of the module.
ToDevice(m, has_cuda) ==
    IF has_cuda THEN move_state_dict_to_device(m, FALSE) ELSE m

\* Seconds a blocking call (the batch draw, train_step) may take.
Durations == {0, 1, MAX_TRAINING_ITERATION_DELAY, MAX_FIRST_ITERATION_DELAY}

\* Loop heads the model starts at: a new process, and a process about to
\* run an iteration whose step is a multiple of the frequencies.
StartSteps == {0, EVAL_FREQUENCY - 1, GENERATE_FREQUENCY - 1}

\* Keys of the dict model.validation_losses returns, in sorted order.
ValidationKeys == <<"a", "b">>

\* Keys of the dict tb_logs that train_step returns.
TrainLogKeys == <<"aux">>

Record(ns, key, step) == [ns |-> ns, key |-> key, step |-> step]

NoFile == [name |-> NoPath]

\* Values of a validation loss: the mean of up to four of them is whole.
LossVals == {0, 12}

\* What model.validation_losses may return for a batch: a dict of named
\* losses.
LossDicts ==
    UNION {[keys -> LossVals] :
              keys \in (SUBSET {ValidationKeys[i] : i \in 1..Len(ValidationKeys)})
                           \ {{}}}

\* The validation source of a training run: every batch reports every key.
TrainingValidSet(n_batches) ==
    [b \in 1..n_batches |->
        [key \in {ValidationKeys[i] : i \in 1..Len(ValidationKeys)} |->
            IF b = 1 /\ key = ValidationKeys[1] THEN 12 ELSE 0]]

\* no direct call has been made
NoCall == [fn |-> "none"]

\* The files a process that started with a new model has written by the
\* time it has completed k iterations: one per multiple of EVAL_FREQUENCY.
FilesAfter(k, has_cuda) ==
    LET steps == {EVAL_FREQUENCY * j : j \in 1..(k \div EVAL_FREQUENCY)}
    IN  [n \in {CkptName(st) : st \in steps} |->
            LET st == CHOOSE x \in steps : CkptName(x) = n
            IN  Checkpoint(ModelState(st, "t1", DeviceOf(has_cuda)),
                           Pairs(TrainShape, st, DeviceOf(has_cuda)))]

\* The loop head of a process that started with a new model and no
\* checkpoint and has completed k iterations of train_loop, none with a NaN
\* loss or an expired alarm.
LoopHeadAfter(k) ==
    /\ cuda \in BOOLEAN
    /\ train_len \in (IF k = 0 THEN 0 ELSE 1)..MaxTrainLen
    /\ valid_len \in 0..MaxValidLen
    /\ valid_losses = TrainingValidSet(valid_len)
    /\ call = NoCall
    /\ pc = "head"
    /\ exit_status = Running
    /\ exit_cause = "none"
    /\ model = ModelState(k, IF k = 0 THEN "t0" ELSE "t1", DeviceOf(cuda))
    /\ training = TRUE
    /\ optimizers = Pairs(TrainShape, k, IF k = 0 THEN "cpu" ELSE DeviceOf(cuda))
    /\ ckpt_dir = FilesAfter(k, cuda)
    /\ dir_exists = (k >= EVAL_FREQUENCY)
    /\ cursor = IF k = 0 THEN 0 ELSE ((k - 1) % train_len) + 1
    /\ laps = IF k = 0 THEN 0 ELSE (k - 1) \div train_len
    /\ total_start_time = IF k = 0 THEN "None" ELSE "set"
    /\ num_iterations = k
    /\ print_loss = IF k = 0 THEN "none" ELSE "finite"
    /\ done = FALSE
    /\ alarm = 0
    /\ deadline = 0
    /\ elapsed = 0
    /\ writer = <<>>
    /\ start_step = 0
    /\ step_calls = k
    /\ armings = k
    /\ saves = <<>>
    /\ written = DOMAIN ckpt_dir
    /\ restarts = 0
    /\ budget = MaxIter
    /\ load_result = "none"
    /\ pre_load = <<>>
    /\ loaded = NoFile
    /\ saved = NoFile
    /\ latest = NoPath

Init == \E k \in StartSteps : LoopHeadAfter(k)

----------------------------------------------------------------------------
(* The watchdog: signal.alarm and the SIGALRM handler.                     *)

\* hard_exit(status): the process ends at once; a pending alarm dies with it.
hard_exit(status, cause) ==
    /\ pc' = "exited"
    /\ exit_status' = status
    /\ exit_cause' = cause
    /\ alarm' = 0

\* signal.alarm(seconds): replaces any pending alarm; 0 cancels it.
signal_alarm(seconds) ==
    /\ alarm' = seconds
    /\ deadline' = seconds
    /\ elapsed' = 0

\* d seconds pass inside a blocking call that returns before the alarm.
TimePasses(d) ==
    /\ d \in Durations
    /\ alarm = 0 \/ d < alarm
    /\ alarm' = IF alarm = 0 THEN 0 ELSE alarm - d
    /\ elapsed' = IF alarm = 0 THEN elapsed ELSE elapsed + d
    /\ UNCHANGED deadline

\* the positions at which train_loop is inside a blocking call
BlockingPcs == {"draw", "step"}

\* The handler printing its message and returning instead of exiting.
HandlerReturns ==
    /\ exit_status = Running
    /\ pc \in BlockingPcs
    /\ alarm > 0
    /\ \E d \in Durations : d >= alarm
    /\ alarm' = 0
    /\ elapsed' = elapsed + alarm
    /\ UNCHANGED <<pc, exit_status, exit_cause, deadline, model, training,
                   optimizers, ckpt_dir, dir_exists, cursor, laps,
                   total_start_time, num_iterations, print_loss, done,
                   writer, start_step, step_calls, armings, saves, written,
                   restarts, budget>>
    /\ UNCHANGED input_vars
    /\ UNCHANGED codec_vars
    /\ UNCHANGED sink_vars

\* training_iteration_took_too_long: the handler of SIGALRM, delivered
\* when the pending alarm runs out while the process is inside a blocking
\* call that takes d seconds or more.
training_iteration_took_too_long ==
    /\ exit_status = Running
    /\ pc \in BlockingPcs
    /\ alarm > 0
    /\ \E d \in Durations : d >= alarm
    /\ hard_exit(1, "watchdog")
    /\ elapsed' = elapsed + alarm
    /\ UNCHANGED <<deadline, model, training, optimizers, ckpt_dir,
                   dir_exists, cursor, laps, total_start_time,
                   num_iterations, print_loss, done, writer, start_step,
                   step_calls, armings, saves, written, restarts, budget>>
    /\ UNCHANGED input_vars
    /\ UNCHANGED codec_vars
    /\ UNCHANGED sink_vars

----------------------------------------------------------------------------
(* train_loop, statement by statement.                                     *)

\* what model.is_done() may return: anything, while iterations are left
IsDoneOutcomes == IF budget = 0 THEN {TRUE} ELSE BOOLEAN

\* while not model.is_done():
LoopHead ==
    /\ pc = "head"
    /\ \E is_done \in IsDoneOutcomes :
          /\ done' = is_done
          /\ pc' = IF is_done THEN "final_save" ELSE "arm"
          /\ budget' = IF is_done THEN budget ELSE budget - 1
    /\ UNCHANGED <<exit_status, exit_cause, model, training, optimizers,
                   ckpt_dir, dir_exists, cursor, laps, total_start_time,
                   num_iterations, print_loss, alarm, deadline, elapsed,
                   writer, start_step, step_calls, armings, saves, written,
                   restarts>>
    /\ UNCHANGED input_vars
    /\ UNCHANGED codec_vars
    /\ UNCHANGED sink_vars

\* Arm with the deadline chosen by the global step instead of by
\* total_start_time.
ArmByGlobalStep ==
    /\ pc = "arm"
    /\ signal_alarm(IF global_step = 0
                    THEN MAX_FIRST_ITERATION_DELAY
                    ELSE MAX_TRAINING_ITERATION_DELAY)
    /\ armings' = armings + 1
    /\ pc' = "draw"
    /\ UNCHANGED <<exit_status, exit_cause, model, training, optimizers,
                   ckpt_dir, dir_exists, cursor, laps, total_start_time,
                   num_iterations, print_loss, done, writer, start_step,
                   step_calls, saves, written, restarts, budget>>
    /\ UNCHANGED input_vars
    /\ UNCHANGED codec_vars
    /\ UNCHANGED sink_vars

\* signal.alarm(MAX_FIRST_ITERATION_DELAY if total_start_time is None
\*              else MAX_TRAINING_ITERATION_DELAY)
Arm ==
    /\ pc = "arm"
    /\ signal_alarm(IF total_start_time = "None"
                    THEN MAX_FIRST_ITERATION_DELAY
                    ELSE MAX_TRAINING_ITERATION_DELAY)
    /\ armings' = armings + 1
    /\ pc' = "draw"
    /\ UNCHANGED <<exit_status, exit_cause, model, training, optimizers,
                   ckpt_dir, dir_exists, cursor, laps, total_start_time,
                   num_iterations, print_loss, done, writer, start_step,
                   step_calls, saves, written, restarts, budget>>
    /\ UNCHANGED input_vars
    /\ UNCHANGED codec_vars
    /\ UNCHANGED sink_vars

\* Draw with the pass restarted without the "Completed epoch." notice.
DrawWithoutNotice ==
    /\ pc = "draw"
    /\ train_len > 0
    /\ \E d \in Durations : TimePasses(d)
    /\ laps' = laps
    /\ cursor' = IF cursor = train_len THEN 1 ELSE cursor + 1
    /\ pc' = "step"
    /\ UNCHANGED <<exit_status, exit_cause, model, training, optimizers,
                   ckpt_dir, dir_exists, total_start_time, num_iterations,
                   print_loss, done, writer, start_step, step_calls, armings,
                   saves, written, restarts, budget>>
    /\ UNCHANGED input_vars
    /\ UNCHANGED codec_vars
    /\ UNCHANGED sink_vars

\* Draw with the first batch of the source left out of a restarted pass.
DrawSkipsOnRestart ==
    /\ pc = "draw"
    /\ train_len > 0
    /\ \E d \in Durations : TimePasses(d)
    /\ IF cursor = train_len
       THEN laps' = laps + 1 /\ cursor' = Min(2, train_len)
       ELSE laps' = laps /\ cursor' = cursor + 1
    /\ pc' = "step"
    /\ UNCHANGED <<exit_status, exit_cause, model, training, optimizers,
                   ckpt_dir, dir_exists, total_start_time, num_iterations,
                   print_loss, done, writer, start_step, step_calls, armings,
                   saves, written, restarts, budget>>
    /\ UNCHANGED input_vars
    /\ UNCHANGED codec_vars
    /\ UNCHANGED sink_vars

\* next(train_iterator) on a source with batches: the next batch of the
\* pass, or, the pass being over, "Completed epoch." and the first batch
\* of a new pass.
Draw ==
    /\ pc = "draw"
    /\ train_len > 0
    /\ \E d \in Durations : TimePasses(d)
    /\ IF cursor = train_len
       THEN laps' = laps + 1 /\ cursor' = 1
       ELSE laps' = laps /\ cursor' = cursor + 1
    /\ pc' = "step"
    /\ UNCHANGED <<exit_status, exit_cause, model, training, optimizers,
                   ckpt_dir, dir_exists, total_start_time, num_iterations,
                   print_loss, done, writer, start_step, step_calls, armings,
                   saves, written, restarts, budget>>
    /\ UNCHANGED input_vars
    /\ UNCHANGED codec_vars
    /\ UNCHANGED sink_vars

\* Draw on a source without batches with the generator ending after the
\* empty pass, so that next() raises StopIteration.
DrawEmptyPassStops ==
    /\ pc = "draw"
    /\ train_len = 0
    /\ laps < MaxLaps
    /\ hard_exit(1, "StopIteration")
    /\ laps' = laps + 1
    /\ UNCHANGED <<deadline, elapsed, model, training, optimizers, ckpt_dir,
                   dir_exists, cursor, total_start_time, num_iterations,
                   print_loss, done, writer, start_step, step_calls, armings,
                   saves, written, restarts, budget>>
    /\ UNCHANGED input_vars
    /\ UNCHANGED codec_vars
    /\ UNCHANGED sink_vars

\* next(train_iterator) on a source without batches: yield from train_set
\* yields nothing, "Completed epoch." is printed and the generator goes
\* round again; the call does not return.
DrawEmptyPass ==
    /\ pc = "draw"
    /\ train_len = 0
    /\ laps < MaxLaps
    /\ \E d \in Durations : TimePasses(d)
    /\ laps' = laps + 1
    /\ UNCHANGED <<pc, exit_status, exit_cause, model, training, optimizers,
                   ckpt_dir, dir_exists, cursor, total_start_time,
                   num_iterations, print_loss, done, writer, start_step,
                   step_calls, armings, saves, written, restarts, budget>>
    /\ UNCHANGED input_vars
    /\ UNCHANGED codec_vars
    /\ UNCHANGED sink_vars

\* One more update applied by the optimizer and the scheduler of a pair.
StepPair(p, d) ==
    [opt |-> OptState(p.opt.items.param_groups.items[1].val + 1, d),
     sched |-> IF p.sched = None THEN None
               ELSE SchedState(p.sched.items.last_epoch.val + 1)]

\* loss, tb_logs = model.train_step(spectrograms, waveforms): the subclass
\* updates its parameters and optimizers and returns a loss; the loss and
\* the new parameters may each hold a NaN.
TrainStep ==
    /\ pc = "step"
    /\ \E d \in Durations : TimePasses(d)
    /\ \E loss \in {"finite", "nan"}, w \in {"t1", "nan"} :
          /\ print_loss' = loss
          /\ model' = [model EXCEPT !.items.weight.val = w]
    /\ optimizers' = [i \in 1..Len(optimizers) |->
                         StepPair(optimizers[i], DeviceOf(cuda))]
    /\ step_calls' = step_calls + 1
    /\ pc' = "incr"
    /\ UNCHANGED <<exit_status, exit_cause, training, ckpt_dir, dir_exists,
                   cursor, laps, total_start_time, num_iterations, done,
                   writer, start_step, armings, saves, written, restarts,
                   budget>>
    /\ UNCHANGED input_vars
    /\ UNCHANGED codec_vars
    /\ UNCHANGED sink_vars

\* Increment with the counter advanced twice.
IncrementTwice ==
    /\ pc = "incr"
    /\ num_iterations' = num_iterations + 1
    /\ model' = SetGlobalStep(model, global_step + 2)
    /\ total_start_time' = "set"
    /\ pc' = "disarm"
    /\ UNCHANGED <<exit_status, exit_cause, training, optimizers, ckpt_dir,
                   dir_exists, cursor, laps, print_loss, done, alarm,
                   deadline, elapsed, writer, start_step, step_calls,
                   armings, saves, written, restarts, budget>>
    /\ UNCHANGED input_vars
    /\ UNCHANGED codec_vars
    /\ UNCHANGED sink_vars

\* Increment with the counter left alone.
IncrementNever ==
    /\ pc = "incr"
    /\ num_iterations' = num_iterations + 1
    /\ total_start_time' = "set"
    /\ pc' = "disarm"
    /\ UNCHANGED <<exit_status, exit_cause, model, training, optimizers,
                   ckpt_dir, dir_exists, cursor, laps, print_loss, done,
                   alarm, deadline, elapsed, writer, start_step, step_calls,
                   armings, saves, written, restarts, budget>>
    /\ UNCHANGED input_vars
    /\ UNCHANGED codec_vars
    /\ UNCHANGED sink_vars

\* num_iterations += 1; model.global_step += 1; total_start_time is set
\* if it was None; the iteration's line is printed.
Increment ==
    /\ pc = "incr"
    /\ num_iterations' = num_iterations + 1
    /\ model' = SetGlobalStep(model, global_step + 1)
    /\ total_start_time' = "set"
    /\ pc' = "disarm"
    /\ UNCHANGED <<exit_status, exit_cause, training, optimizers, ckpt_dir,
                   dir_exists, cursor, laps, print_loss, done, alarm,
                   deadline, elapsed, writer, start_step, step_calls,
                   armings, saves, written, restarts, budget>>
    /\ UNCHANGED input_vars
    /\ UNCHANGED codec_vars
    /\ UNCHANGED sink_vars

\* Disarm with the alarm left pending.
DisarmForgotten ==
    /\ pc = "disarm"
    /\ pc' = "log"
    /\ UNCHANGED <<exit_status, exit_cause, model, training, optimizers,
                   ckpt_dir, dir_exists, cursor, laps, total_start_time,
                   num_iterations, print_loss, done, alarm, deadline,
                   elapsed, writer, start_step, step_calls, armings, saves,
                   written, restarts, budget>>
    /\ UNCHANGED input_vars
    /\ UNCHANGED codec_vars
    /\ UNCHANGED sink_vars

\* signal.alarm(0)
Disarm ==
    /\ pc = "disarm"
    /\ signal_alarm(0)
    /\ pc' = "log"
    /\ UNCHANGED <<exit_status, exit_cause, model, training, optimizers,
                   ckpt_dir, dir_exists, cursor, laps, total_start_time,
                   num_iterations, print_loss, done, writer, start_step,
                   step_calls, armings, saves, written, restarts, budget>>
    /\ UNCHANGED input_vars
    /\ UNCHANGED codec_vars
    /\ UNCHANGED sink_vars

\* the records of one LOG_FREQUENCY step: train/loss, then train/<key>
\* for every key of tb_logs
TrainRecords(step) ==
    <<Record("train", <<"loss">>, step)>> \o
    [i \in 1..Len(TrainLogKeys) |-> Record("train", <<TrainLogKeys[i]>>, step)]

\* if model.global_step % LOG_FREQUENCY == 0: writer.add_scalar(...)
LogMetrics ==
    /\ pc = "log"
    /\ writer' = IF global_step % LOG_FREQUENCY = 0
                 THEN writer \o TrainRecords(global_step)
                 ELSE writer
    /\ pc' = "nan_check"
    /\ UNCHANGED <<exit_status, exit_cause, model, training, optimizers,
                   ckpt_dir, dir_exists, cursor, laps, total_start_time,
                   num_iterations, print_loss, done, alarm, deadline,
                   elapsed, start_step, step_calls, armings, saves, written,
                   restarts, budget>>
    /\ UNCHANGED input_vars
    /\ UNCHANGED codec_vars
    /\ UNCHANGED sink_vars

\* NanCheck that lets a NaN loss through.
NanCheckSkipped ==
    /\ pc = "nan_check"
    /\ pc' = "eval"
    /\ UNCHANGED <<exit_status, exit_cause, alarm>>
    /\ UNCHANGED <<model, training, optimizers, ckpt_dir, dir_exists,
                   cursor, laps, total_start_time, num_iterations,
                   print_loss, done, deadline, elapsed, writer, start_step,
                   step_calls, armings, saves, written, restarts, budget>>
    /\ UNCHANGED input_vars
    /\ UNCHANGED codec_vars
    /\ UNCHANGED sink_vars

\* if math.isnan(print_loss): hard_exit(1)
NanCheck ==
    /\ pc = "nan_check"
    /\ IF print_loss = "nan"
       THEN hard_exit(1, "nan")
       ELSE /\ pc' = "eval"
            /\ UNCHANGED <<exit_status, exit_cause, alarm>>
    /\ UNCHANGED <<model, training, optimizers, ckpt_dir, dir_exists,
                   cursor, laps, total_start_time, num_iterations,
                   print_loss, done, deadline, elapsed, writer, start_step,
                   step_calls, armings, saves, written, restarts, budget>>
    /\ UNCHANGED input_vars
    /\ UNCHANGED codec_vars
    /\ UNCHANGED sink_vars

\* if model.global_step % EVAL_FREQUENCY == 0: model.eval()
EvalGate ==
    /\ pc = "eval"
    /\ IF global_step % EVAL_FREQUENCY = 0
       THEN training' = FALSE /\ pc' = "validate"
       ELSE training' = training /\ pc' = "generate"
    /\ UNCHANGED <<exit_status, exit_cause, model, optimizers, ckpt_dir,
                   dir_exists, cursor, laps, total_start_time,
                   num_iterations, print_loss, done, alarm, deadline,
                   elapsed, writer, start_step, step_calls, armings, saves,
                   written, restarts, budget>>
    /\ UNCHANGED input_vars
    /\ UNCHANGED codec_vars
    /\ UNCHANGED sink_vars

RECURSIVE Sum(_)
Sum(seq) == IF seq = <<>> THEN 0 ELSE Head(seq) + Sum(Tail(seq))

\* The loss of the first batch taken for the mean.
FirstLoss(key_losses) == key_losses[1]

\* torch.mean(torch.stack(key_losses)): whole for the values of LossVals
Mean(key_losses) == Sum(key_losses) \div Len(key_losses)

\* sorted(losses[0].keys())
SortedKeys(first) == SelectSeq(ValidationKeys, LAMBDA key : key \in DOMAIN first)

\* writer.add_scalar("valid/" + key, mean_loss, global_step=...)
ValidRecord(key, mean_loss, step) ==
    [ns |-> "valid", key |-> <<key>>, step |-> step, val |-> mean_loss]

\* The position in the sorted keys of the first one that some batch does
\* not report, where batch_losses[key] raises KeyError (0 if there is none).
FirstMissingKey(losses) ==
    LET keys == SortedKeys(losses[1])
        bad == {i \in 1..Len(keys) :
                   \E b \in 1..Len(losses) : keys[i] \notin DOMAIN losses[b]}
    IN  IF bad = {} THEN 0 ELSE CHOOSE i \in bad : \A j \in bad : i <= j

\* the records compute_validation_metrics writes: none for a source
\* without batches, else valid/<key> with the mean over all batches, for
\* the sorted keys of the first batch's losses, up to a KeyError
ValidationRecords(losses, step) ==
    IF losses = <<>> THEN <<>>
    ELSE LET keys == SortedKeys(losses[1])
             bad == FirstMissingKey(losses)
             upto == IF bad = 0 THEN Len(keys) ELSE bad - 1
         IN  [i \in 1..upto |->
                 ValidRecord(keys[i],
                             Mean([b \in 1..Len(losses) |-> losses[b][keys[i]]]),
                             step)]

\* compute_validation_metrics on a source whose batches give these losses:
\* how it ends, the records written and the batches read from the source.
ComputeValidationMetrics(losses, step) ==
    [result |-> IF losses # <<>> /\ FirstMissingKey(losses) # 0
                THEN "KeyError" ELSE "ok",
     records |-> ValidationRecords(losses, step),
     reads |-> Len(losses)]

\* compute_validation_metrics(model, valid_set, writer)
compute_validation_metrics ==
    /\ pc = "validate"
    /\ LET r == ComputeValidationMetrics(valid_losses, global_step)
       IN  /\ writer' = writer \o r.records
           /\ IF r.result = "ok"
              THEN /\ pc' = "train_mode"
                   /\ UNCHANGED <<exit_status, exit_cause, alarm>>
              ELSE hard_exit(1, r.result)
    /\ UNCHANGED <<model, training, optimizers,
                   ckpt_dir, dir_exists, cursor, laps, total_start_time,
                   num_iterations, print_loss, done, deadline,
                   elapsed, start_step, step_calls, armings, saves, written,
                   restarts, budget>>
    /\ UNCHANGED input_vars
    /\ UNCHANGED codec_vars
    /\ UNCHANGED sink_vars

\* TrainMode with the model left in evaluation mode.
TrainModeForgotten ==
    /\ pc = "train_mode"
    /\ pc' = "save"
    /\ UNCHANGED <<exit_status, exit_cause, model, training, optimizers,
                   ckpt_dir, dir_exists, cursor, laps, total_start_time,
                   num_iterations, print_loss, done, alarm, deadline,
                   elapsed, writer, start_step, step_calls, armings, saves,
                   written, restarts, budget>>
    /\ UNCHANGED input_vars
    /\ UNCHANGED codec_vars
    /\ UNCHANGED sink_vars

\* model.train()
TrainMode ==
    /\ pc = "train_mode"
    /\ training' = TRUE
    /\ pc' = "save"
    /\ UNCHANGED <<exit_status, exit_cause, model, optimizers, ckpt_dir,
                   dir_exists, cursor, laps, total_start_time,
                   num_iterations, print_loss, done, alarm, deadline,
                   elapsed, writer, start_step, step_calls, armings, saves,
                   written, restarts, budget>>
    /\ UNCHANGED input_vars
    /\ UNCHANGED codec_vars
    /\ UNCHANGED sink_vars

\* save_model(model, checkpoint_dir) as train_loop calls it: the directory
\* is made if missing and the file of the current step is written.
SaveCheckpoint(final) ==
    LET name == CkptName(global_step)
    IN  /\ ckpt_dir' = save_model(model, optimizers, ckpt_dir)
        /\ dir_exists' = TRUE
        /\ saves' = Append(saves, [step |-> global_step,
                                   final |-> final,
                                   proc |-> restarts,
                                   existed |-> name \in DOMAIN ckpt_dir,
                                   again |-> name \in written])
        /\ written' = written \cup {name}

\* the save_model call that follows validation
PeriodicSave ==
    /\ pc = "save"
    /\ SaveCheckpoint(FALSE)
    /\ pc' = "generate"
    /\ UNCHANGED <<exit_status, exit_cause, model, training, optimizers,
                   cursor, laps, total_start_time, num_iterations,
                   print_loss, done, alarm, deadline, elapsed, writer,
                   start_step, step_calls, armings, restarts, budget>>
    /\ UNCHANGED input_vars
    /\ UNCHANGED codec_vars
    /\ UNCHANGED sink_vars

\* AudioRecords with the ground truth written at every step.
AudioRecordsWithTruth(n_samples, step) ==
    [i \in 1..(2 * n_samples) |->
        Record("audio",
               <<(i - 1) \div 2,
                 IF (i - 1) % 2 = 0 THEN "real" ELSE "synthesized">>,
               step)]

\* the records generate_tensorboard_samples writes for n_samples samples
AudioRecords(n_samples, step) ==
    LET per == IF step = 0 THEN 2 ELSE 1
    IN  [i \in 1..(per * n_samples) |->
            LET idx == (i - 1) \div per
            IN  Record("audio",
                       <<idx, IF step = 0 /\ (i - 1) % per = 0
                              THEN "real" ELSE "synthesized">>,
                       step)]

\* generate_tensorboard_samples on a source of n_batches batches: how it
\* ends, the records written and the batches read. next(data_iter) raises
\* StopIteration when the source has fewer than n_samples batches, before
\* anything is written.
generate_tensorboard_samples(n_batches, n_samples, step) ==
    [result |-> IF n_batches < n_samples THEN "StopIteration" ELSE "ok",
     records |-> IF n_batches < n_samples THEN <<>>
                 ELSE AudioRecords(n_samples, step),
     reads |-> Min(n_batches, n_samples)]

\* GenerateGate with the samples generated at every multiple of
\* EVAL_FREQUENCY.
GenerateGateAtEval ==
    /\ pc = "generate"
    /\ IF global_step % EVAL_FREQUENCY = 0
       THEN LET r == generate_tensorboard_samples(
                         valid_len, GENERATE_NUM_SAMPLES, global_step)
            IN  /\ writer' = writer \o r.records
                /\ IF r.result = "ok"
                   THEN /\ pc' = "head"
                        /\ UNCHANGED <<exit_status, exit_cause, alarm>>
                   ELSE hard_exit(1, r.result)
       ELSE /\ pc' = "head"
            /\ UNCHANGED <<exit_status, exit_cause, alarm, writer>>
    /\ UNCHANGED <<model, training, optimizers, ckpt_dir, dir_exists,
                   cursor, laps, total_start_time, num_iterations,
                   print_loss, done, deadline, elapsed, start_step,
                   step_calls, armings, saves, written, restarts, budget>>
    /\ UNCHANGED input_vars
    /\ UNCHANGED codec_vars
    /\ UNCHANGED sink_vars

\* if model.global_step % GENERATE_FREQUENCY == 0:
\*     generate_tensorboard_samples(model, valid_set, writer)
\* Nothing catches the StopIteration.
GenerateGate ==
    /\ pc = "generate"
    /\ IF global_step % GENERATE_FREQUENCY = 0
       THEN LET r == generate_tensorboard_samples(
                         valid_len, GENERATE_NUM_SAMPLES, global_step)
            IN  /\ writer' = writer \o r.records
                /\ IF r.result = "ok"
                   THEN /\ pc' = "head"
                        /\ UNCHANGED <<exit_status, exit_cause, alarm>>
                   ELSE hard_exit(1, r.result)
       ELSE /\ pc' = "head"
            /\ UNCHANGED <<exit_status, exit_cause, alarm, writer>>
    /\ UNCHANGED <<model, training, optimizers, ckpt_dir, dir_exists,
                   cursor, laps, total_start_time, num_iterations,
                   print_loss, done, deadline, elapsed, start_step,
                   step_calls, armings, saves, written, restarts, budget>>
    /\ UNCHANGED input_vars
    /\ UNCHANGED codec_vars
    /\ UNCHANGED sink_vars

\* FinalSave that returns without writing the checkpoint.
FinalSaveOmitted ==
    /\ pc = "final_save"
    /\ pc' = "returned"
    /\ exit_status' = 0
    /\ exit_cause' = "returned"
    /\ UNCHANGED <<model, training, optimizers, ckpt_dir, dir_exists,
                   cursor, laps, total_start_time, num_iterations,
                   print_loss, done, alarm, deadline, elapsed, writer,
                   start_step, step_calls, armings, saves, written, restarts,
                   budget>>
    /\ UNCHANGED input_vars
    /\ UNCHANGED codec_vars
    /\ UNCHANGED sink_vars

\* print("Completed training."); save_model(model, checkpoint_dir); then
\* train_loop and cli_train return and the process ends with status 0.
FinalSave ==
    /\ pc = "final_save"
    /\ SaveCheckpoint(TRUE)
    /\ pc' = "returned"
    /\ exit_status' = 0
    /\ exit_cause' = "returned"
    /\ UNCHANGED <<model, training, optimizers, cursor, laps,
                   total_start_time, num_iterations, print_loss, done,
                   alarm, deadline, elapsed, writer, start_step, step_calls,
                   armings, restarts, budget>>
    /\ UNCHANGED input_vars
    /\ UNCHANGED codec_vars
    /\ UNCHANGED sink_vars

\* A new process on the same model directory: cli_train calls load_model
\* (a new model, the last checkpoint loaded into it if there is one, the
\* model moved to the GPU, left in training mode) and then train_loop,
\* which makes a new SummaryWriter and sets its locals. An error raised
\* by the load ends the process.
load_model ==
    /\ pc \in {"returned", "exited"}
    /\ restarts < MaxRestarts
    /\ restarts' = restarts + 1
    /\ LET checkpoint_path == last_checkpoint_path(ckpt_dir, dir_exists)
           fresh == NewOptimizers(ShapeOf(optimizers))
           r == IF checkpoint_path = NoPath
                THEN [result |-> "none", model |-> NewModel,
                      optimizers |-> fresh]
                ELSE load_model_from_checkpoint(
                         NewModel, fresh, ckpt_dir[checkpoint_path], cuda)
       IN  /\ latest' = checkpoint_path
           /\ load_result' = r.result
           /\ pre_load' = <<NewModel, fresh>>
           /\ loaded' = IF checkpoint_path = NoPath THEN NoFile
                        ELSE [name |-> checkpoint_path,
                              record |-> ckpt_dir[checkpoint_path]]
           /\ model' = IF r.result \in {"none", "ok"}
                       THEN ToDevice(r.model, cuda) ELSE r.model
           /\ optimizers' = r.optimizers
           /\ start_step' = r.model.items.global_step_buffer.val
           /\ IF r.result \in {"none", "ok"}
              THEN /\ pc' = "head"
                   /\ exit_status' = Running
                   /\ exit_cause' = "none"
              ELSE /\ pc' = "exited"
                   /\ exit_status' = 1
                   /\ exit_cause' = r.result
    /\ training' = TRUE
    /\ cursor' = 0
    /\ laps' = 0
    /\ total_start_time' = "None"
    /\ num_iterations' = 0
    /\ print_loss' = "none"
    /\ done' = FALSE
    /\ alarm' = 0
    /\ deadline' = 0
    /\ elapsed' = 0
    /\ step_calls' = 0
    /\ armings' = 0
    /\ written' = {}
    /\ writer' = <<>>
    /\ UNCHANGED <<ckpt_dir, dir_exists, saves, saved, budget>>
    /\ UNCHANGED input_vars
    /\ UNCHANGED sink_vars

\* one step of the running process
ProcessNext ==
    \/ LoopHead
    \/ Arm
    \/ Draw
    \/ DrawEmptyPass
    \/ TrainStep
    \/ Increment
    \/ Disarm
    \/ LogMetrics
    \/ NanCheck
    \/ EvalGate
    \/ compute_validation_metrics
    \/ TrainMode
    \/ PeriodicSave
    \/ GenerateGate
    \/ FinalSave
    \/ training_iteration_took_too_long

Next ==
    \/ ProcessNext
    \/ load_model

Spec == Init /\ [][Next]_vars

\* A running process keeps executing, and wall-clock time keeps passing:
\* each statement of the loop and the alarm's delivery are weakly fair. A
\* new process is started or not.
FairSpec == Spec /\ WF_vars(ProcessNext)

----------------------------------------------------------------------------
(* The checkpoint functions called directly.                               *)

\* the variables of train_loop, which the direct calls leave alone
loop_vars == <<pc, exit_status, exit_cause, training, train_len, valid_len,
               cursor, laps, total_start_time, num_iterations, print_loss,
               done, alarm, deadline, elapsed, writer, start_step,
               step_calls, armings, saves, written, restarts, budget>>

\* no train_loop is running
NoLoop ==
    /\ pc = "codec"
    /\ exit_status = Running
    /\ exit_cause = "none"
    /\ training = TRUE
    /\ train_len = 0
    /\ valid_len = 0
    /\ valid_losses = <<>>
    /\ call = NoCall
    /\ cursor = 0
    /\ laps = 0
    /\ total_start_time = "None"
    /\ num_iterations = 0
    /\ print_loss = "none"
    /\ done = FALSE
    /\ alarm = 0
    /\ deadline = 0
    /\ elapsed = 0
    /\ writer = <<>>
    /\ start_step = 0
    /\ step_calls = 0
    /\ armings = 0
    /\ saves = <<>>
    /\ written = {}
    /\ restarts = 0
    /\ budget = 0

\* all sequences of at most n booleans: the shapes of get_optimizers()
RECURSIVE Shapes(_)
Shapes(n) ==
    IF n = 0 THEN {<<>>}
    ELSE LET shorter == Shapes(n - 1)
         IN  shorter \cup {Append(sh, b) : sh \in shorter, b \in BOOLEAN}

\* the global step held by a checkpoint record
StepOf(record) == record.items.model.items.global_step_buffer.val

\* An entity that has trained to the given step: its parameters and the
\* state of its optimizers and schedulers are what the steps left.
TrainedTo(step, w) ==
    /\ model' = [SetGlobalStep(model, step) EXCEPT !.items.weight.val = w]
    /\ optimizers' = [i \in 1..Len(optimizers) |->
                         [opt |-> OptState(step, DeviceOf(cuda)),
                          sched |-> IF optimizers[i].sched = None THEN None
                                    ELSE SchedState(step)]]

\* save_model(model, checkpoint_dir), called once on the entity as it is
DirectSave ==
    /\ saved = NoFile
    /\ ckpt_dir' = save_model(model, optimizers, ckpt_dir)
    /\ dir_exists' = TRUE
    /\ saved' = [name |-> CkptName(global_step),
                 record |-> Checkpoint(model, optimizers)]
    /\ load_result' = "none"
    /\ UNCHANGED <<cuda, model, optimizers, pre_load, loaded, latest>>
    /\ UNCHANGED loop_vars
    /\ UNCHANGED sink_vars

\* load_model_from_checkpoint(model, checkpoint_path), called once on a
\* file of the directory
DirectLoad ==
    /\ dir_exists
    /\ loaded = NoFile
    /\ \E checkpoint_path \in DOMAIN ckpt_dir :
          LET r == load_model_from_checkpoint(
                       model, optimizers, ckpt_dir[checkpoint_path], cuda)
          IN  /\ load_result' = r.result
              /\ model' = r.model
              /\ optimizers' = r.optimizers
              /\ loaded' = [name |-> checkpoint_path,
                            record |-> ckpt_dir[checkpoint_path]]
    /\ pre_load' = <<model, optimizers>>
    /\ UNCHANGED <<cuda, ckpt_dir, dir_exists, saved, latest>>
    /\ UNCHANGED loop_vars
    /\ UNCHANGED sink_vars

\* model_class(config); model.initialize(): another entity, whose class
\* and configuration decide what get_optimizers() returns
NewEntity ==
    /\ saved # NoFile
    /\ loaded = NoFile
    /\ \E shape \in Shapes(MaxPairs) :
          /\ model' = NewModel
          /\ optimizers' = NewOptimizers(shape)
    /\ load_result' = "none"
    /\ UNCHANGED <<cuda, ckpt_dir, dir_exists, pre_load, loaded, saved,
                   latest>>
    /\ UNCHANGED loop_vars
    /\ UNCHANGED sink_vars

\* training carried on for one more step, as train_loop does it
TrainOn ==
    /\ loaded = NoFile
    /\ global_step < MaxCodecSteps
    /\ \E w \in TensorVals : TrainedTo(global_step + 1, w)
    /\ load_result' = "none"
    /\ UNCHANGED <<cuda, ckpt_dir, dir_exists, pre_load, loaded, saved,
                   latest>>
    /\ UNCHANGED loop_vars
    /\ UNCHANGED sink_vars

InitCkpt ==
    /\ NoLoop
    /\ cuda \in BOOLEAN
    /\ \E w \in TensorVals, shape \in Shapes(MaxPairs) :
          /\ model = ModelState(0, w, DeviceOf(cuda))
          /\ optimizers = Pairs(shape, 0, DeviceOf(cuda))
    /\ ckpt_dir = <<>>
    /\ dir_exists = FALSE
    /\ load_result = "none"
    /\ pre_load = <<>>
    /\ loaded = NoFile
    /\ saved = NoFile
    /\ latest = NoPath

NextCkpt ==
    \/ DirectSave
    \/ DirectLoad
    \/ NewEntity
    \/ TrainOn

SpecCkpt == InitCkpt /\ [][NextCkpt]_vars

\* Steps at which checkpoints are written: the steps of a long run, up to
\* the first step of nine digits.
StepChoices == {100, 5000, 250000, 99995000, 100000000}

\* training carried on to a later step
TrainTo ==
    /\ \E step \in StepChoices :
          /\ step > global_step
          /\ TrainedTo(step, "t1")
    /\ UNCHANGED <<cuda, ckpt_dir, dir_exists>>
    /\ UNCHANGED codec_vars
    /\ UNCHANGED sink_vars
    /\ UNCHANGED loop_vars
    /\ UNCHANGED sink_vars

\* save_model at the step reached
SaveAtStep ==
    /\ ckpt_dir' = save_model(model, optimizers, ckpt_dir)
    /\ dir_exists' = TRUE
    /\ saved' = [name |-> CkptName(global_step),
                 record |-> Checkpoint(model, optimizers)]
    /\ UNCHANGED <<cuda, model, optimizers, load_result, pre_load, loaded,
                   latest>>
    /\ UNCHANGED loop_vars
    /\ UNCHANGED sink_vars

\* last_checkpoint_path(model_dir)
CallLatest ==
    /\ latest' = last_checkpoint_path(ckpt_dir, dir_exists)
    /\ UNCHANGED <<cuda, model, optimizers, ckpt_dir, dir_exists,
                   load_result, pre_load, loaded, saved>>
    /\ UNCHANGED loop_vars
    /\ UNCHANGED sink_vars

InitLatest ==
    /\ NoLoop
    /\ cuda \in BOOLEAN
    /\ model = ToDevice(NewModel, cuda)
    /\ optimizers = NewOptimizers(TrainShape)
    /\ ckpt_dir = <<>>
    /\ dir_exists \in BOOLEAN
    /\ load_result = "none"
    /\ pre_load = <<>>
    /\ loaded = NoFile
    /\ saved = NoFile
    /\ latest = NoPath

NextLatest ==
    \/ TrainTo
    \/ SaveAtStep
    \/ CallLatest

SpecLatest == InitLatest /\ [][NextLatest]_vars

----------------------------------------------------------------------------
(* compute_validation_metrics and generate_tensorboard_samples called      *)
(* directly.                                                               *)

\* n_samples of a direct call of generate_tensorboard_samples
MaxSamples == 2

\* compute_validation_metrics(model, dataloader, writer), called once
CallValidate ==
    /\ pc = "sink"
    /\ call = NoCall
    /\ LET r == ComputeValidationMetrics(valid_losses, global_step)
       IN  /\ writer' = writer \o r.records
           /\ call' = [fn |-> "compute_validation_metrics",
                       result |-> r.result,
                       reads |-> r.reads,
                       n_samples |-> 0,
                       step |-> global_step,
                       before |-> writer]
    /\ UNCHANGED <<pc, exit_status, exit_cause, cuda, model, training,
                   optimizers, ckpt_dir, dir_exists, train_len, valid_len,
                   cursor, laps, total_start_time, num_iterations,
                   print_loss, done, alarm, deadline, elapsed, start_step,
                   step_calls, armings, saves, written, restarts, budget,
                   valid_losses>>
    /\ UNCHANGED codec_vars

\* generate_tensorboard_samples(model, dataloader, writer, n_samples),
\* called once
CallGenerate ==
    /\ pc = "sink"
    /\ call = NoCall
    /\ \E n_samples \in 0..MaxSamples :
          LET r == generate_tensorboard_samples(valid_len, n_samples,
                                                global_step)
          IN  /\ writer' = writer \o r.records
              /\ call' = [fn |-> "generate_tensorboard_samples",
                          result |-> r.result,
                          reads |-> r.reads,
                          n_samples |-> n_samples,
                          step |-> global_step,
                          before |-> writer]
    /\ UNCHANGED <<pc, exit_status, exit_cause, cuda, model, training,
                   optimizers, ckpt_dir, dir_exists, train_len, valid_len,
                   cursor, laps, total_start_time, num_iterations,
                   print_loss, done, alarm, deadline, elapsed, start_step,
                   step_calls, armings, saves, written, restarts, budget,
                   valid_losses>>
    /\ UNCHANGED codec_vars

\* all sequences of at most n dicts of losses: the validation sources
RECURSIVE ValidSets(_)
ValidSets(n) ==
    IF n = 0 THEN {<<>>}
    ELSE LET shorter == ValidSets(n - 1)
         IN  shorter \cup {Append(vs, d) : vs \in shorter, d \in LossDicts}

InitSink ==
    /\ pc = "sink"
    /\ exit_status = Running
    /\ exit_cause = "none"
    /\ cuda \in BOOLEAN
    /\ model = ModelState(0, "t1", DeviceOf(cuda))
    /\ training = FALSE
    /\ optimizers = Pairs(TrainShape, 0, DeviceOf(cuda))
    /\ ckpt_dir = <<>>
    /\ dir_exists = FALSE
    /\ train_len = 0
    /\ valid_losses \in ValidSets(MaxValidLen)
    /\ valid_len = Len(valid_losses)
    /\ call = NoCall
    /\ cursor = 0
    /\ laps = 0
    /\ total_start_time = "None"
    /\ num_iterations = 0
    /\ print_loss = "none"
    /\ done = FALSE
    /\ alarm = 0
    /\ deadline = 0
    /\ elapsed = 0
    /\ writer = <<>>
    /\ start_step = 0
    /\ step_calls = 0
    /\ armings = 0
    /\ saves = <<>>
    /\ written = {}
    /\ restarts = 0
    /\ budget = 0
    /\ load_result = "none"
    /\ pre_load = <<>>
    /\ loaded = NoFile
    /\ saved = NoFile
    /\ latest = NoPath

NextSink ==
    \/ CallValidate
    \/ CallGenerate
    \/ TrainOn

SpecSink == InitSink /\ [][NextSink]_vars

----------------------------------------------------------------------------
(* The first iterations of one process that starts with a new model.       *)

\* iterations of that process
MaxSteps == 10

\* train_loop is entered by a process that found no checkpoint, with a
\* training source that has batches.
InitStream ==
    /\ cuda \in BOOLEAN
    /\ train_len \in 1..(MaxTrainLen + 1)
    /\ valid_len = MaxValidLen
    /\ valid_losses = TrainingValidSet(valid_len)
    /\ call = NoCall
    /\ pc = "head"
    /\ exit_status = Running
    /\ exit_cause = "none"
    /\ model = ToDevice(NewModel, cuda)
    /\ training = TRUE
    /\ optimizers = NewOptimizers(TrainShape)
    /\ ckpt_dir = <<>>
    /\ dir_exists = FALSE
    /\ cursor = 0
    /\ laps = 0
    /\ total_start_time = "None"
    /\ num_iterations = 0
    /\ print_loss = "none"
    /\ done = FALSE
    /\ alarm = 0
    /\ deadline = 0
    /\ elapsed = 0
    /\ writer = <<>>
    /\ start_step = 0
    /\ step_calls = 0
    /\ armings = 0
    /\ saves = <<>>
    /\ written = {}
    /\ restarts = 0
    /\ budget = MaxSteps
    /\ load_result = "none"
    /\ pre_load = <<>>
    /\ loaded = NoFile
    /\ saved = NoFile
    /\ latest = NoPath

\* the statements such a process reaches before step EVAL_FREQUENCY
NextStream ==
    \/ LoopHead
    \/ Arm
    \/ Draw
    \/ TrainStep
    \/ Increment
    \/ Disarm
    \/ LogMetrics
    \/ NanCheck
    \/ EvalGate
    \/ GenerateGate
    \/ FinalSave
    \/ training_iteration_took_too_long

SpecStream == InitStream /\ [][NextStream]_vars

----------------------------------------------------------------------------
(* Claims about train_loop and the watchdog.                               *)

\* a step within one process (load_model starts another one)
SameProcess == restarts' = restarts

\* the positions between two iterations and after the loop
AtLoopHead == pc \in {"head", "arm", "final_save", "returned"}

\* C1: at every loop head, and when train_loop returns, global_step is
\* its value on entry plus the number of train_step calls made, which is
\* the number of iterations; a run that entered at 0 and made N iterations
\* leaves with global_step = N after N calls. Within a process the counter
\* changes only at the increment statement, by exactly 1.
C1_StepCounter ==
    /\ [](AtLoopHead =>
            /\ global_step = start_step + step_calls
            /\ step_calls = num_iterations)
    /\ []((pc = "returned" /\ start_step = 0) =>
            /\ global_step = num_iterations
            /\ step_calls = num_iterations)
    /\ [][(SameProcess /\ global_step' # global_step) =>
            /\ pc = "incr"
            /\ global_step' = global_step + 1
            /\ step_calls' = step_calls]_vars
    /\ [][(SameProcess /\ step_calls' # step_calls) =>
            /\ pc = "step"
            /\ step_calls' = step_calls + 1
            /\ global_step' = global_step]_vars

\* C1 witness: a run entered at step 0 returned after two iterations.
C1_Witness ==
    /\ pc = "returned"
    /\ start_step = 0
    /\ num_iterations = 2
    /\ global_step = 2
    /\ step_calls = 2

\* the last save_model call, if any
LastSave == saves[Len(saves)]

\* C2: when train_loop returns, the last is_done() was true, the process
\* ends with status 0, and the last thing done was a save_model that wrote
\* the file named by the final global step, holding that step; once
\* is_done() was seen true the process calls train_step no more; and a
\* running process always comes to an end: it returns unless a fatal
\* condition ends it.
C2_RunsUntilDone ==
    /\ [](pc = "returned" =>
            /\ done
            /\ exit_status = 0
            /\ saves # <<>>
            /\ LastSave.final
            /\ LastSave.proc = restarts
            /\ LastSave.step = global_step
            /\ dir_exists
            /\ CkptName(global_step) \in DOMAIN ckpt_dir
            /\ ckpt_dir[CkptName(global_step)] = Checkpoint(model, optimizers))
    /\ [][(SameProcess /\ done) =>
            /\ done'
            /\ step_calls' = step_calls
            /\ global_step' = global_step]_vars
    /\ [][(pc # "returned" /\ pc' = "returned") => pc = "final_save"]_vars
    /\ (exit_status = Running) ~> (pc = "returned" \/ exit_status = 1)

\* C2 witness: is_done() was true on entry and train_loop returned after
\* the final save, with no training step.
C2_Witness ==
    /\ pc = "returned"
    /\ num_iterations = 0
    /\ step_calls = 0
    /\ LastSave.final
    /\ CkptName(global_step) \in DOMAIN ckpt_dir

\* the records other than the train/ ones
NonTrain(w) == SelectSeq(w, LAMBDA r : r.ns # "train")

\* C3: a NaN loss ends the process with status 1 at the NaN check; after
\* the increment of the step that returned it, nothing more happens: no
\* train_step, no increment, no validation or audio record, no save_model,
\* also at a multiple of EVAL_FREQUENCY or GENERATE_FREQUENCY.
C3_NaNIsFatal ==
    /\ [](print_loss = "nan" =>
            /\ pc \in {"incr", "disarm", "log", "nan_check", "exited"}
            /\ pc = "exited" => exit_status = 1)
    /\ [][(pc = "nan_check" /\ print_loss = "nan") =>
            /\ pc' = "exited"
            /\ exit_status' = 1
            /\ exit_cause' = "nan"]_vars
    /\ [][(SameProcess /\ print_loss = "nan" /\ pc # "incr") =>
            /\ global_step' = global_step
            /\ step_calls' = step_calls
            /\ num_iterations' = num_iterations
            /\ ckpt_dir' = ckpt_dir
            /\ saves' = saves
            /\ training' = training
            /\ NonTrain(writer') = NonTrain(writer)]_vars

\* C3 witness: the process ended on a NaN loss at a step that is a
\* multiple of both frequencies.
C3_Witness ==
    /\ pc = "exited"
    /\ exit_cause = "nan"
    /\ exit_status = 1
    /\ global_step > 0
    /\ global_step % EVAL_FREQUENCY = 0
    /\ global_step % GENERATE_FREQUENCY = 0

ArmedPcs == {"draw", "step", "incr", "disarm"}

\* C5: the alarm is pending exactly from the arming of an iteration to
\* its disarm, that is during the batch draw and train_step; it is not
\* pending at the loop head, during validation, save_model or sample
\* generation, or when train_loop has returned; the handler can only
\* fire between the arming and the disarm.
C5_ArmedOnlyAroundStep ==
    /\ [](pc \in ArmedPcs => alarm > 0)
    /\ [](pc \notin ArmedPcs => alarm = 0)
    /\ [][(exit_cause # "watchdog" /\ exit_cause' = "watchdog") =>
            pc \in ArmedPcs]_vars

\* C5 witness: a checkpoint is about to be written after an iteration
\* that was armed, and no alarm is pending.
C5_Witness ==
    /\ pc = "save"
    /\ armings >= 1
    /\ alarm = 0

\* C10 as stated: no save_model call writes a path that exists already.
C10_NeverRewritten ==
    \A i \in DOMAIN saves : ~saves[i].existed

\* C10 amended: a periodic save never writes a path its process has
\* written before; a path is written again within a process only by the
\* final save, directly after the periodic save of the same step.
C10_PeriodicSavesAreNew ==
    \A i \in DOMAIN saves :
        /\ ~saves[i].final => ~saves[i].again
        /\ saves[i].again =>
              /\ saves[i].final
              /\ i > 1
              /\ saves[i - 1].proc = saves[i].proc
              /\ saves[i - 1].step = saves[i].step
              /\ ~saves[i - 1].final

\* C10 witness: a final save wrote again the path the periodic save of
\* the same step had just written.
C10_Witness ==
    /\ saves # <<>>
    /\ LastSave.final
    /\ LastSave.again
    /\ LastSave.existed

----------------------------------------------------------------------------
(* Claims about the checkpoint functions.                                  *)

\* a load_model_from_checkpoint call has been made and has ended
LoadDone == loaded # NoFile /\ load_result # "none"

\* the record's model sub-state holds a NaN
RecordHasNaN(record) ==
    \E key \in DOMAIN record.items.model.items :
        HasNaN(record.items.model.items[key])

\* the shape of the entity that wrote the record
RecordShape(record) ==
    [i \in 1..Len(record.items.lr_schedulers.items) |->
        record.items.lr_schedulers.items[i] # None]

\* the file save_model wrote was loaded into an entity whose
\* get_optimizers() has the shape of the saving entity's
RoundTrip ==
    /\ LoadDone
    /\ saved # NoFile
    /\ loaded = saved
    /\ Len(pre_load[2]) = Len(saved.record.items.optimizers.items)
    /\ ShapeOf(pre_load[2]) = RecordShape(saved.record)

\* the entity is what the saved record holds: re-serialized it gives the
\* record, pair by pair, and the global step is the saved one
Restored ==
    /\ load_result = "ok"
    /\ Checkpoint(model, optimizers) = saved.record
    /\ global_step = StepOf(saved.record)
    /\ \A n \in 1..Len(optimizers) :
          /\ move_state_dict_to_device(optimizers[n].opt, TRUE)
                = saved.record.items.optimizers.items[n]
          /\ optimizers[n].sched # None =>
                optimizers[n].sched = saved.record.items.lr_schedulers.items[n]

C8_NaNScanBeforeRestore ==
    (LoadDone /\ RecordHasNaN(loaded.record)) =>
        /\ load_result = "AssertionError"
        /\ model = pre_load[1]
        /\ optimizers = pre_load[2]

\* C8 witness: the load of a record with a NaN failed on an entity whose
\* step and optimizer states differ from the record's.
C8_Witness ==
    /\ LoadDone
    /\ load_result = "AssertionError"
    /\ RecordHasNaN(loaded.record)
    /\ StepOf(loaded.record) # global_step
    /\ Len(optimizers) >= 1
    /\ Len(loaded.record.items.optimizers.items) >= 1

\* C9 as stated: a load fails when the record holds another number of
\* optimizer states than the entity has pairs.
C9_CountMismatchFails ==
    (LoadDone /\ Len(pre_load[2]) # Len(loaded.record.items.optimizers.items))
        => load_result # "ok"

\* the steps of the files of the directory
FileSteps == {StepOf(ckpt_dir[n]) : n \in DOMAIN ckpt_dir}

\* C7 as stated: last_checkpoint_path returns none for an empty or absent
\* directory and else the file of the numerically greatest step.
C7_LatestIsGreatestStep ==
    LET p == last_checkpoint_path(ckpt_dir, dir_exists)
    IN  IF ~dir_exists \/ DOMAIN ckpt_dir = {}
        THEN p = NoPath
        ELSE /\ p \in DOMAIN ckpt_dir
             /\ \A st \in FileSteps : st <= StepOf(ckpt_dir[p])

----------------------------------------------------------------------------
(* Claims about validation, sample generation and the training stream.     *)

\* the valid/ records of a writer
ValidOnly(w) == SelectSeq(w, LAMBDA r : r.ns = "valid")

\* the audio/ records of a writer
AudioOnly(w) == SelectSeq(w, LAMBDA r : r.ns = "audio")

\* C11 as stated: with a validation source of zero batches no valid/
\* record is written and the process is never ended by an exception
\* raised for want of validation batches, also at the steps at which
\* validation or sample generation is due.
C11_EmptyValidationIsBenign ==
    valid_len = 0 =>
        /\ ValidOnly(writer) = <<>>
        /\ exit_cause \notin {"StopIteration", "KeyError"}

\* the records the last direct call wrote
NewRecords == SubSeq(writer, Len(call.before) + 1, Len(writer))

\* the place of a key in the ascending order of the keys
KeyRank(key) == CHOOSE i \in 1..Len(ValidationKeys) : ValidationKeys[i] = key

\* every batch reports every key the first batch reports
EveryBatchHasKeys(losses) ==
    \A b \in 1..Len(losses) : DOMAIN losses[1] \subseteq DOMAIN losses[b]

\* C12: compute_validation_metrics on a source with batches reads every
\* batch once and returns having written one record per key of the first
\* batch's losses, valid/<key>, in ascending key order, tagged with the
\* global step, whose value is the arithmetic mean of the key over all
\* batches; the call changes neither the model nor its global step.
C12_ValidationMeans ==
    /\ [](( /\ call.fn = "compute_validation_metrics"
            /\ valid_losses # <<>>
            /\ EveryBatchHasKeys(valid_losses)) =>
            /\ call.result = "ok"
            /\ call.reads = Len(valid_losses)
            /\ Len(NewRecords) = Cardinality(DOMAIN valid_losses[1])
            /\ \A i \in 1..Len(NewRecords) :
                  /\ NewRecords[i].ns = "valid"
                  /\ Len(NewRecords[i].key) = 1
                  /\ NewRecords[i].key[1] \in DOMAIN valid_losses[1]
                  /\ NewRecords[i].step = call.step
                  /\ NewRecords[i].val * Len(valid_losses) =
                        Sum([b \in 1..Len(valid_losses) |->
                                valid_losses[b][NewRecords[i].key[1]]])
                  /\ \A j \in 1..(i - 1) :
                        KeyRank(NewRecords[j].key[1]) <
                            KeyRank(NewRecords[i].key[1]))
    /\ [][(call' # call /\ call'.fn = "compute_validation_metrics") =>
            /\ model' = model
            /\ call'.step = global_step']_vars

\* C12 witness: two batches reporting a and b with different values of a
\* gave exactly valid/a, the mean, and then valid/b.
C12_Witness ==
    /\ call.fn = "compute_validation_metrics"
    /\ Len(valid_losses) = 2
    /\ DOMAIN valid_losses[1] = {"a", "b"}
    /\ DOMAIN valid_losses[2] = {"a", "b"}
    /\ valid_losses[1]["a"] # valid_losses[2]["a"]
    /\ Len(NewRecords) = 2
    /\ NewRecords[1].key = <<"a">>
    /\ NewRecords[1].val = 6
    /\ NewRecords[2].key = <<"b">>

\* C14: generate_tensorboard_samples with n_samples = n on a source of at
\* least n batches writes, at global step 0, for each sample index the
\* ground-truth record and then the synthesized one (2n records), and at
\* a later step the n synthesized records only, all tagged with the
\* global step.
C14_SampleRecords ==
    ( /\ call.fn = "generate_tensorboard_samples"
      /\ valid_len >= call.n_samples ) =>
        /\ call.result = "ok"
        /\ \A i \in 1..Len(NewRecords) :
              /\ NewRecords[i].ns = "audio"
              /\ NewRecords[i].step = call.step
        /\ IF call.step = 0
           THEN /\ Len(NewRecords) = 2 * call.n_samples
                /\ \A idx \in 0..(call.n_samples - 1) :
                      /\ NewRecords[2 * idx + 1].key = <<idx, "real">>
                      /\ NewRecords[2 * idx + 2].key = <<idx, "synthesized">>
           ELSE /\ Len(NewRecords) = call.n_samples
                /\ \A idx \in 0..(call.n_samples - 1) :
                      NewRecords[idx + 1].key = <<idx, "synthesized">>

\* C14 witness: a call for two samples at global step 0 wrote four
\* records, the ground truth of each sample before its synthesis.
C14_Witness ==
    /\ call.fn = "generate_tensorboard_samples"
    /\ call.result = "ok"
    /\ call.step = 0
    /\ call.n_samples = 2
    /\ Len(NewRecords) = 4
    /\ NewRecords[1].key = <<0, "real">>
    /\ NewRecords[4].key = <<1, "synthesized">>

\* the batches drawn from the pass that is under way, if it is not over
PartialBatches == cursor % train_len

\* the passes over the source that are over
FullPasses == (step_calls - PartialBatches) \div train_len

\* ten training steps were made on a source of three batches
TenStepsOfThree ==
    /\ train_len = 3
    /\ step_calls = 10
    /\ num_iterations = 10
    /\ pc \in {"head", "final_save", "returned"}

\* C13 as stated: ten training steps on a source of three batches make
\* three full passes and one partial pass, and the source was restarted
\* exactly twice, with one notice each time.
C13_RecyclesTwice ==
    TenStepsOfThree =>
        /\ FullPasses = 3
        /\ PartialBatches = 1
        /\ laps = 2

\* C13 amended: three full passes and one partial pass, and the source
\* was restarted exactly three times, once after each full pass, with
\* one notice each time.
C13_RecyclesThreeTimes ==
    TenStepsOfThree =>
        /\ FullPasses = 3
        /\ PartialBatches = 1
        /\ laps = 3

\* C13 witness: train_loop returned after ten steps on a source of three
\* batches, the first batch of the fourth pass being the last one drawn.
C13_Witness ==
    /\ TenStepsOfThree
    /\ pc = "returned"
    /\ cursor = 1
    /\ laps = 3

\* C19: the draw of the k-th batch (k - 1 train_step calls made) returns
\* element (k - 1) mod L of the source, after (k - 1) div L restarts; a
\* draw always returns a batch unless the watchdog ends the process, and
\* it changes nothing but the position in the source: not the step
\* counter, not the iteration count, not what is_done() returned.
C19_KthBatch ==
    /\ [](pc = "step" =>
            /\ cursor = (step_calls % train_len) + 1
            /\ laps = step_calls \div train_len)
    /\ [][(pc = "draw" /\ pc' # "draw" /\ exit_cause' # "watchdog") =>
            /\ pc' = "step"
            /\ exit_status' = Running
            /\ cursor' = (step_calls % train_len) + 1
            /\ model' = model
            /\ num_iterations' = num_iterations
            /\ step_calls' = step_calls
            /\ done' = done
            /\ writer' = writer]_vars
    /\ [][cursor' # cursor => pc = "draw"]_vars
    /\ [](exit_cause \in {"none", "returned", "nan", "watchdog"})

\* C19 witness: the eighth batch drawn from a source of three batches is
\* its second one, after two restarts.
C19_Witness ==
    /\ pc = "step"
    /\ train_len = 3
    /\ step_calls = 7
    /\ cursor = 2
    /\ laps = 2

\* the records a step of train_loop adds to the writer
Added == SubSeq(writer', Len(writer) + 1, Len(writer'))

\* C15 as stated: the first time train_loop invokes the Sample Generator
\* the ground-truth record of every sample is written with the
\* synthesized one, and every later invocation writes synthesized records
\* only.
C15_TruthOnFirstInvocation ==
    [][( /\ pc = "generate"
         /\ global_step % GENERATE_FREQUENCY = 0
         /\ pc' = "head" ) =>
          IF AudioOnly(writer) = <<>>
          THEN \A idx \in 0..(GENERATE_NUM_SAMPLES - 1) :
                  /\ \E i \in 1..Len(Added) : Added[i].key = <<idx, "real">>
                  /\ \E i \in 1..Len(Added) :
                        Added[i].key = <<idx, "synthesized">>
          ELSE \A i \in 1..Len(Added) : Added[i].key[2] = "synthesized"]_vars

\* C16: after the NaN check of a step that is a multiple of
\* EVAL_FREQUENCY come, one after the other and with nothing else done,
\* model.eval(), the validation, model.train() and the save_model of that
\* step; the model is in evaluation mode during the validation and in
\* training mode at the save and at every train_step; on other steps
\* nothing of this happens.
C16_EvalValidateTrainSave ==
    /\ [][(pc = "nan_check" /\ print_loss # "nan") => pc' = "eval"]_vars
    /\ [][(pc = "eval" /\ global_step % EVAL_FREQUENCY = 0) =>
            /\ pc' = "validate"
            /\ ~training'
            /\ writer' = writer
            /\ saves' = saves
            /\ model' = model]_vars
    /\ [][(pc = "eval" /\ global_step % EVAL_FREQUENCY # 0) =>
            /\ pc' = "generate"
            /\ training' = training
            /\ writer' = writer
            /\ saves' = saves]_vars
    /\ [][pc = "validate" =>
            /\ pc' = "train_mode"
            /\ ~training /\ ~training'
            /\ Added = ValidOnly(Added)
            /\ saves' = saves
            /\ model' = model]_vars
    /\ [][pc = "train_mode" =>
            /\ pc' = "save"
            /\ training'
            /\ writer' = writer
            /\ saves' = saves
            /\ model' = model]_vars
    /\ [][pc = "save" =>
            /\ pc' = "generate"
            /\ training /\ training'
            /\ writer' = writer
            /\ Len(saves') = Len(saves) + 1
            /\ saves'[Len(saves')].step = global_step
            /\ ~saves'[Len(saves')].final
            /\ model' = model]_vars
    /\ [](pc \in {"validate", "train_mode", "save"} =>
            /\ global_step % EVAL_FREQUENCY = 0
            /\ print_loss = "finite")
    /\ [](pc = "step" => training)
    /\ [](\A i \in 1..Len(writer) :
            writer[i].ns = "valid" => writer[i].step % EVAL_FREQUENCY = 0)
    /\ [][(SameProcess /\ ValidOnly(writer') # ValidOnly(writer)) =>
            pc = "validate"]_vars

\* C16 witness: at a multiple of EVAL_FREQUENCY the validation wrote its
\* records and the checkpoint of the step was written after it, the
\* model being back in training mode.
C16_Witness ==
    /\ pc = "generate"
    /\ global_step % EVAL_FREQUENCY = 0
    /\ training
    /\ saves # <<>>
    /\ LastSave.step = global_step
    /\ ~LastSave.final
    /\ \E i \in 1..Len(writer) :
          writer[i].ns = "valid" /\ writer[i].step = global_step

\* C17 as stated: a process ended by a NaN loss has written no train/
\* record for the step of that loss.
C17_NaNCheckBeforeLog ==
    exit_cause = "nan" =>
        \A i \in 1..Len(writer) :
            ~(writer[i].ns = "train" /\ writer[i].step = global_step)

\* C18: an iteration is armed with MAX_FIRST_ITERATION_DELAY if it is the
\* first one of its process, whatever the global step, and with
\* MAX_TRAINING_ITERATION_DELAY otherwise.
C18_DeadlineChoice ==
    /\ [][pc = "arm" =>
            /\ deadline' = IF num_iterations = 0
                           THEN MAX_FIRST_ITERATION_DELAY
                           ELSE MAX_TRAINING_ITERATION_DELAY
            /\ alarm' = deadline']_vars
    /\ [](pc \in ArmedPcs =>
            deadline = IF armings = 1 THEN MAX_FIRST_ITERATION_DELAY
                       ELSE MAX_TRAINING_ITERATION_DELAY)

\* C18 witness: the first iteration of a process resumed from a
\* checkpoint at a step above 0 is armed with the long deadline.
C18_Witness ==
    /\ restarts >= 1
    /\ load_result = "ok"
    /\ global_step > 0
    /\ num_iterations = 0
    /\ pc = "draw"
    /\ deadline = MAX_FIRST_ITERATION_DELAY

\* the steps the process completed without a NaN loss
Completed == IF exit_cause = "nan" THEN global_step - 1 ELSE global_step

\* the greatest of a non-empty set of numbers
Greatest(S) == CHOOSE x \in S : \A y \in S : y <= x

\* C20 as stated: a process started on the model directory after a NaN
\* loss or a watchdog expiry ended the one before resumes train_loop at
\* the step of the greatest checkpoint written, which is the largest
\* multiple of EVAL_FREQUENCY not above the steps completed (a new model
\* at step 0 if no checkpoint was written): not above the counter before
\* the crash, and fewer than EVAL_FREQUENCY completed steps are lost.
C20_CrashAndResume ==
    [][( /\ pc = "exited"
         /\ exit_cause \in {"nan", "watchdog"}
         /\ restarts' = restarts + 1 ) =>
          /\ pc' = "head"
          /\ global_step' = IF FileSteps = {} THEN 0 ELSE Greatest(FileSteps)
          /\ global_step' = EVAL_FREQUENCY * (Completed \div EVAL_FREQUENCY)
          /\ global_step' <= global_step
          /\ Completed - global_step' < EVAL_FREQUENCY]_vars

----------------------------------------------------------------------------
(* Claims about an empty training source and the order of the phases.      *)

\* the first batch draw of a process whose training source has no batches
EmptyDraw == train_len = 0 /\ pc = "draw"

\* C21: with a training source of zero batches and is_done() false at
\* first, the batch draw of the first iteration never returns: the stream
\* goes round printing "Completed epoch.", train_step is never called and
\* global_step never changes. The alarm was armed with the first-iteration
\* deadline before the draw, so the process is eventually ended by the
\* watchdog with status 1 when that deadline has elapsed, and it has
\* written no checkpoint.
C21_EmptySourceEndsByWatchdog ==
    /\ [](EmptyDraw =>
            /\ num_iterations = 0
            /\ total_start_time = "None"
            /\ alarm > 0
            /\ deadline = MAX_FIRST_ITERATION_DELAY
            /\ written = {})
    /\ [](train_len = 0 =>
            /\ step_calls = 0
            /\ global_step = start_step
            /\ pc \notin {"step", "incr", "disarm", "log", "nan_check",
                          "eval", "validate", "train_mode", "save",
                          "generate"})
    /\ [][EmptyDraw =>
            /\ pc' \in {"draw", "exited"}
            /\ laps' \in {laps, laps + 1}
            /\ model' = model
            /\ step_calls' = step_calls
            /\ ckpt_dir' = ckpt_dir
            /\ saves' = saves
            /\ pc' = "exited" =>
                  /\ exit_status' = 1
                  /\ exit_cause' = "watchdog"
                  /\ elapsed' = MAX_FIRST_ITERATION_DELAY]_vars
    /\ EmptyDraw ~>
          (/\ pc = "exited"
           /\ exit_status = 1
           /\ exit_cause = "watchdog"
           /\ train_len = 0
           /\ written = {})

\* C21 witness: a process with an empty training source went round the
\* source, printing its notice, until the watchdog ended it after the
\* first-iteration deadline; no train_step was made and no file written.
C21_Witness ==
    /\ train_len = 0
    /\ pc = "exited"
    /\ exit_cause = "watchdog"
    /\ exit_status = 1
    /\ laps >= 1
    /\ elapsed = MAX_FIRST_ITERATION_DELAY
    /\ step_calls = 0
    /\ global_step = start_step
    /\ written = {}

\* the positions of the phases that follow the disarm of an iteration
PhasePcs == {"log", "nan_check", "eval", "validate", "train_mode", "save",
             "generate"}

\* every record of w carries the step
AllAtStep(w, step) == \A i \in 1..Len(w) : w[i].step = step

\* C22: after the step and the disarm the phases of an iteration run one
\* after the other in the order metric logging, NaN check, validation
\* and checkpoint, sample generation; logging, validation with its
\* checkpoint, and generation happen exactly when the incremented
\* global_step is a multiple of LOG_FREQUENCY, EVAL_FREQUENCY and
\* GENERATE_FREQUENCY. GENERATE_FREQUENCY being a multiple of
\* EVAL_FREQUENCY, a sample generation is reached only through the
\* validation and the checkpoint write of the same iteration, made for
\* the same step; and no phase changes global_step.
C22_PhaseOrder ==
    /\ [][pc = "disarm" => pc' = "log"]_vars
    /\ [][pc = "log" =>
            /\ pc' = "nan_check"
            /\ IF global_step % LOG_FREQUENCY = 0
               THEN /\ Added # <<>>
                    /\ NonTrain(Added) = <<>>
                    /\ AllAtStep(Added, global_step)
               ELSE writer' = writer
            /\ saves' = saves]_vars
    /\ [][pc = "nan_check" =>
            /\ pc' \in {"eval", "exited"}
            /\ writer' = writer
            /\ saves' = saves]_vars
    /\ [][pc = "eval" =>
            /\ pc' = IF global_step % EVAL_FREQUENCY = 0
                     THEN "validate" ELSE "generate"
            /\ writer' = writer
            /\ saves' = saves]_vars
    /\ [][pc = "validate" =>
            /\ pc' = "train_mode"
            /\ Added = ValidOnly(Added)
            /\ AllAtStep(Added, global_step)
            /\ Len(Added) = IF valid_len = 0 THEN 0 ELSE Len(ValidationKeys)
            /\ saves' = saves]_vars
    /\ [][pc = "train_mode" =>
            pc' = "save" /\ writer' = writer /\ saves' = saves]_vars
    /\ [][pc = "save" =>
            /\ pc' = "generate"
            /\ writer' = writer
            /\ saves' = Append(saves, saves'[Len(saves')])
            /\ saves'[Len(saves')].step = global_step
            /\ CkptName(global_step) \in DOMAIN ckpt_dir']_vars
    /\ [][pc = "generate" =>
            /\ saves' = saves
            /\ IF global_step % GENERATE_FREQUENCY = 0
               THEN \/ /\ pc' = "head"
                       /\ Added # <<>>
                       /\ Added = AudioOnly(Added)
                       /\ AllAtStep(Added, global_step)
                    \/ /\ pc' = "exited"
                       /\ exit_cause' = "StopIteration"
                       /\ valid_len < GENERATE_NUM_SAMPLES
                       /\ writer' = writer
               ELSE pc' = "head" /\ writer' = writer]_vars
    /\ [][(pc' = "generate" /\ pc # "generate"
                /\ global_step' % GENERATE_FREQUENCY = 0) =>
            pc = "save"]_vars
    /\ [][(pc' = "save" /\ pc # "save") => pc = "train_mode"]_vars
    /\ [][(pc' = "train_mode" /\ pc # "train_mode") => pc = "validate"]_vars
    /\ [](global_step % GENERATE_FREQUENCY = 0 =>
            global_step % EVAL_FREQUENCY = 0)
    /\ []((pc = "generate" /\ global_step % GENERATE_FREQUENCY = 0) =>
            /\ saves # <<>>
            /\ LastSave.step = global_step
            /\ LastSave.proc = restarts
            /\ ~LastSave.final
            /\ CkptName(global_step) \in written
            /\ valid_len > 0 =>
                  \E i \in 1..Len(writer) :
                      writer[i].ns = "valid" /\ writer[i].step = global_step)
    /\ [](\A i \in 1..Len(writer) :
            /\ writer[i].ns = "train" => writer[i].step % LOG_FREQUENCY = 0
            /\ writer[i].ns = "audio" =>
                  writer[i].step % GENERATE_FREQUENCY = 0)
    /\ [][(SameProcess /\ pc \in PhasePcs) =>
            /\ global_step' = global_step
            /\ step_calls' = step_calls
            /\ num_iterations' = num_iterations]_vars

\* C22 witness: an iteration that brought global_step to a multiple of
\* GENERATE_FREQUENCY is over: the train/ records, the valid/ records and
\* the audio/ records of that step were written in this order, and the
\* checkpoint of the step was written before the samples.
C22_Witness ==
    /\ pc = "head"
    /\ global_step = GENERATE_FREQUENCY
    /\ saves # <<>>
    /\ LastSave.step = global_step
    /\ ~LastSave.final
    /\ \E i, j, k \in 1..Len(writer) :
          /\ i < j
          /\ j < k
          /\ writer[i].ns = "train" /\ writer[i].step = global_step
          /\ writer[j].ns = "valid" /\ writer[j].step = global_step
          /\ writer[k].ns = "audio" /\ writer[k].step = global_step

============================================================================
